---- MODULE Spec2Model ----
(***************************************************************************)
(* Model of sunrise_sunset.py: the inverse solar-position solver           *)
(* (SolarMath), the forecast loop (calculate_schedule) and the Streamlit   *)
(* page script that runs them once per script run.                         *)
(*                                                                         *)
(* Numbers.  Python floats are modelled by fixed-point integers:           *)
(*   - dimensionless reals, radians and the equation of time (minutes)     *)
(*     are held in units of 1/Scale;                                       *)
(*   - clock minutes and degrees on the longitude path, and the returned   *)
(*     latitude and longitude, are held in units of 1/(Fine*Scale), a      *)
(*     unit in which half seconds, half-hour offsets and the division by   *)
(*     4 are exact.                                                        *)
(* The UTC offset (a multiple of 0.5 h in the page) is held in half hours. *)
(* Dates are ordinals over two consecutive years, a common year followed   *)
(* by a leap year, so that tm_yday ranges over 1..366.                     *)
(***************************************************************************)
EXTENDS Integers, Sequences, FiniteSets, TLC

\* ------------------------------------------------------------------------
\* Fixed-point arithmetic
\* ------------------------------------------------------------------------

Scale == 10000
Fine == 12
Res == Fine * Scale

PiFP == 31416
HalfPiFP == PiFP \div 2
TwoPiFP == 2 * PiFP

Abs(x) == IF x < 0 THEN -x ELSE x
Sgn(x) == IF x < 0 THEN -1 ELSE 1

\* a / b, rounded toward zero (b > 0)
Quot(a, b) == Sgn(a) * (Abs(a) \div b)

\* a * b / c without an intermediate product larger than max(a \div c * b, c * b)
MulDiv(a, b, c) ==
    LET q == Abs(a) \div c
        r == Abs(a) % c
    IN  Sgn(a) * (q * b + (r * b) \div c)

\* product of two values held in units of 1/Scale
Mul(a, b) == Sgn(a) * Sgn(b) * ((Abs(a) * Abs(b)) \div Scale)

\* math.radians / math.degrees on values held in units of 1/Scale
Radians(d) == Quot(MulDiv(d, PiFP, 180), Scale)
Degrees(r) == MulDiv(r * 180, Scale, PiFP)

\* sine of an angle in [0, pi/2], by its Taylor series
SinSeries(x) ==
    LET x2 == Mul(x, x)
        t3 == Mul(x, x2) \div 6
        t5 == Mul(t3, x2) \div 20
        t7 == Mul(t5, x2) \div 42
        t9 == Mul(t7, x2) \div 72
    IN  x - t3 + t5 - t7 + t9

\* math.sin: reduce to [0, 2 pi), then to the first quadrant
Sin(x) ==
    LET y == x % TwoPiFP
    IN  IF y <= HalfPiFP THEN SinSeries(y)
        ELSE IF y <= PiFP THEN SinSeries(PiFP - y)
        ELSE IF y <= PiFP + HalfPiFP THEN -SinSeries(y - PiFP)
        ELSE -SinSeries(TwoPiFP - y)

\* math.cos
Cos(x) == Sin(x + HalfPiFP)

\* math.tan (the argument is a declination, |x| < pi/2, so Cos(x) > 0)
Tan(x) == Quot(Sin(x) * Scale, Cos(x))

\* arctangent of t, |t| <= tan(pi/8), by its Taylor series
AtanSeries(t) ==
    LET t2 == Mul(t, t)
        t3 == Mul(t, t2)
        t5 == Mul(t3, t2)
        t7 == Mul(t5, t2)
        t9 == Mul(t7, t2)
    IN  t - Quot(t3, 3) + Quot(t5, 5) - Quot(t7, 7) + Quot(t9, 9)

TanPiOver8 == 4142

\* arctangent of x >= 0: atan(x) = pi/2 - atan(1/x) above 1,
\* atan(x) = pi/4 + atan((x-1)/(x+1)) above tan(pi/8)
AtanPos(x) ==
    LET y == IF x > Scale THEN (Scale * Scale) \div x ELSE x
        a == IF y > TanPiOver8
             THEN HalfPiFP \div 2 + AtanSeries(Quot((y - Scale) * Scale, y + Scale))
             ELSE AtanSeries(y)
    IN  IF x > Scale THEN HalfPiFP - a ELSE a

\* math.atan
Atan(x) == Sgn(x) * AtanPos(Abs(x))

\* ------------------------------------------------------------------------
\* Dates and clock times
\* ------------------------------------------------------------------------

DaysInCommonYear == 365
LastDate == 731

\* date_obj.timetuple().tm_yday
tm_yday(d) == IF d <= DaysInCommonYear THEN d ELSE d - DaysInCommonYear

\* datetime.time(h, m, s)
ClockTime(h, m, s) == [hour |-> h, minute |-> m, second |-> s]

\* ------------------------------------------------------------------------
\* class SolarMath
\* ------------------------------------------------------------------------

None == "None"
InvalidDayLength == "InvalidDayLength"
NearEquinoxLowConfidence == "NearEquinoxLowConfidence"
NoLocation == << >>

DayOfYearZero == 81
TanDeltaThreshold == 10

\* B in degrees (units of 1/Scale)
\* fault: the year's angle counted from day 80
B_deg_mutant(day_of_year) == Quot(360 * Scale * (day_of_year - 80), 365)
B_deg(day_of_year) == Quot(360 * Scale * (day_of_year - DayOfYearZero), 365)

get_solar_declination_and_eot(date_obj) ==
    LET day_of_year == tm_yday(date_obj)
        B_rad == Radians(B_deg(day_of_year))
        eot == Quot(987 * Sin(2 * B_rad), 100) - Quot(753 * Cos(B_rad), 100)
               - Quot(15 * Sin(B_rad), 10)
        delta_deg == Quot(2345 * Sin(B_rad), 100)
        delta_rad == Radians(delta_deg)
    IN  [delta_rad |-> delta_rad, eot |-> eot]

Seconds(t) == t.hour * 3600 + t.minute * 60 + t.second

\* local solar noon in minutes, units of 1/Res: (sr + day_length/2) / 60
\* fault: the day length is not halved
local_solar_noon_min_mutant(sr_seconds, day_length_seconds) ==
    (2 * sr_seconds + 2 * day_length_seconds) * (Res \div 120)
local_solar_noon_min(sr_seconds, day_length_seconds) ==
    (2 * sr_seconds + day_length_seconds) * (Res \div 120)

\* longitude in degrees, units of 1/Res
Longitude(sr_seconds, day_length_seconds, utc_offset, eot_min) ==
    LET utc_noon_min == local_solar_noon_min(sr_seconds, day_length_seconds)
                          - utc_offset * 30 * Res
        long_offset_min == 720 * Res - utc_noon_min - eot_min * Fine
    IN  Quot(long_offset_min, 4)

\* the hour angle omega in radians, units of 1/Scale
omega_rad(day_length_seconds) ==
    LET day_length_hours == (day_length_seconds * Scale) \div 3600
        omega_deg == (day_length_hours * 15) \div 2
    IN  Radians(omega_deg)

\* latitude in degrees, units of 1/Res
\* fault: the minus sign of the sunrise equation is lost
Latitude_mutant(day_length_seconds, tan_delta) ==
    LET tan_phi == Quot(Cos(omega_rad(day_length_seconds)) * Scale, tan_delta)
        phi_rad == Atan(tan_phi)
    IN  Degrees(phi_rad) * Fine
Latitude(day_length_seconds, tan_delta) ==
    LET tan_phi == Quot(-Cos(omega_rad(day_length_seconds)) * Scale, tan_delta)
        phi_rad == Atan(tan_phi)
    IN  Degrees(phi_rad) * Fine

\* line 46: the day length is rejected
\* fault: a day length of zero is accepted
DayLengthInvalid_mutant(day_length_seconds) == day_length_seconds < 0
DayLengthInvalid(day_length_seconds) == day_length_seconds <= 0

solve_location(target_date, sunrise_time, sunset_time, utc_offset) ==
    LET sr_seconds == Seconds(sunrise_time)
        ss_seconds == Seconds(sunset_time)
        day_length_seconds == ss_seconds - sr_seconds
    IN  IF DayLengthInvalid(day_length_seconds)
        THEN [result |-> NoLocation, error_msg |-> InvalidDayLength]
        ELSE
          LET sol == get_solar_declination_and_eot(target_date)
              longitude == Longitude(sr_seconds, day_length_seconds, utc_offset, sol.eot)
              tan_delta == Tan(sol.delta_rad)
          IN  IF Abs(tan_delta) < TanDeltaThreshold
              THEN [result |-> <<0, longitude>>, error_msg |-> NearEquinoxLowConfidence]
              ELSE [result |-> <<Latitude(day_length_seconds, tan_delta), longitude>>,
                    error_msg |-> None]

\* ------------------------------------------------------------------------
\* Bounds and input samples
\* ------------------------------------------------------------------------

\* script runs in one session
MaxRuns == 3
\* largest forecast length the "days" widget is given (the page allows 1..365)
MaxDays == 2
\* the engine answers a query with an instant 1..MaxDelay delay steps later
MaxDelay == 2
\* one delay step, in half hours
DelayStep == 12
HalfHoursPerDay == 48

\* the page's widget ranges (lines 134-140, 157)
Hours == 0..23
Minutes == 0..59
UtcOffsets == -24..28

\* the form's defaults (lines 152, 154, 157)
DefaultSunrise == ClockTime(6, 30, 0)
DefaultSunset == ClockTime(18, 30, 0)
DefaultOffset == 16

\* inputs submitted in the page flow
FlowDates == {81, 172}
FlowTimes == {DefaultSunrise, DefaultSunset}
FlowOffsets == {DefaultOffset, 28}

\* inputs of the solver taken on its own: every date of the two years
SolveDates == 1..LastDate
SolveTimes == {ClockTime(0, 0, 0), ClockTime(4, 30, 1), DefaultSunrise,
               DefaultSunset, ClockTime(20, 29, 59), ClockTime(23, 59, 59)}
SolveOffsets == {-24, DefaultOffset, 28}

\* ------------------------------------------------------------------------
\* State
\* ------------------------------------------------------------------------

VARIABLES
    session_state,   \* st.session_state: a function on the keys present
    pc,              \* position of the page script ("idle": no run in progress)
    submitted,       \* st.form_submit_button's value in this run
    input_date, input_sunrise, input_sunset, utc_offset,   \* the form's values
    result, error_msg,             \* what solve_location returned in this run
    calc_start_date, days_to_calc, \* the forecast widgets' values
    sched_args,      \* the arguments of this run's calculate_schedule call
    current_date, iter, data,      \* calculate_schedule's locals
    queries,         \* history: the engine queries of this call and their outcomes
    schedule_df,     \* the DataFrame calculate_schedule returned
    extremes,        \* earliest/latest sunrise/sunset row labels
    log,             \* history: what this run did and showed, in order
    exception,       \* the exception that ended this run, or None
    runs, submissions, solves, solves_in_run   \* history counters

vars == <<session_state, pc, submitted, input_date, input_sunrise, input_sunset,
          utc_offset, result, error_msg, calc_start_date, days_to_calc, sched_args,
          current_date, iter, data, queries, schedule_df, extremes, log, exception,
          runs, submissions, solves, solves_in_run>>

form_vars == <<input_date, input_sunrise, input_sunset, utc_offset>>
run_vars == <<result, error_msg, calc_start_date, days_to_calc, sched_args,
              current_date, iter, data, queries, schedule_df, extremes>>
count_vars == <<runs, submissions, solves, solves_in_run>>

NoArgs == << >>
NoFrame == [columns |-> {}, rows |-> << >>]
NoExtremes == << >>

\* the locals of a run before the script has assigned them
FreshRun ==
    /\ result = NoLocation /\ error_msg = None
    /\ calc_start_date = 0 /\ days_to_calc = 0
    /\ sched_args = NoArgs
    /\ current_date = 0 /\ iter = 0 /\ data = << >> /\ queries = << >>
    /\ schedule_df = NoFrame /\ extremes = NoExtremes
    /\ log = << >> /\ exception = None /\ solves_in_run = 0

\* a run starts with its locals unassigned
ResetRun ==
    /\ result' = NoLocation /\ error_msg' = None
    /\ calc_start_date' = 0 /\ days_to_calc' = 0
    /\ sched_args' = NoArgs
    /\ current_date' = 0 /\ iter' = 0 /\ data' = << >> /\ queries' = << >>
    /\ schedule_df' = NoFrame /\ extremes' = NoExtremes
    /\ log' = << >> /\ exception' = None /\ solves_in_run' = 0

Init ==
    /\ session_state = << >>
    /\ pc = "idle"
    /\ submitted = FALSE
    /\ input_date \in FlowDates
    /\ input_sunrise = DefaultSunrise
    /\ input_sunset = DefaultSunset
    /\ utc_offset = DefaultOffset
    /\ FreshRun
    /\ runs = 0 /\ submissions = 0 /\ solves = 0

\* ------------------------------------------------------------------------
\* What starts a script run
\* ------------------------------------------------------------------------

StartRun ==
    /\ pc = "idle"
    /\ runs < MaxRuns
    /\ pc' = "init_session"
    /\ runs' = runs + 1
    /\ ResetRun
    /\ UNCHANGED <<session_state, solves>>

\* the page is loaded, Rerun is chosen, or a widget outside the form (forecast
\* start date, forecast days, the map, the download button) is used: the script
\* runs again with the form's values as last submitted
Rerun ==
    /\ StartRun
    /\ submitted' = FALSE
    /\ UNCHANGED <<form_vars, submissions>>

\* the form (rendered by an earlier run) is submitted with new values
Submit ==
    /\ runs >= 1
    /\ StartRun
    /\ submitted' = TRUE
    /\ submissions' = submissions + 1
    /\ input_date' \in FlowDates
    /\ input_sunrise' \in FlowTimes
    /\ input_sunset' \in FlowTimes
    /\ utc_offset' \in FlowOffsets

\* ------------------------------------------------------------------------
\* The page script
\* ------------------------------------------------------------------------

Goto(next) == pc' = next

\* lines 126-127
InitSession ==
    /\ pc = "init_session"
    /\ session_state' = IF "has_calculated" \in DOMAIN session_state
                        THEN session_state
                        ELSE [k \in {"has_calculated"} |-> FALSE]
    /\ Goto("form")
    /\ UNCHANGED <<submitted, form_vars, run_vars, log, exception, count_vars>>

\* lines 148-163
Form ==
    /\ pc = "form"
    /\ session_state' = IF submitted
                        THEN [session_state EXCEPT !["has_calculated"] = TRUE]
                        ELSE session_state
    /\ Goto("gate")
    /\ UNCHANGED <<submitted, form_vars, run_vars, log, exception, count_vars>>

\* line 167: the main page is computed
\* fault: the gate reads the submit button instead of the session flag
MainPageShown_mutant(state, is_submitted) == is_submitted
MainPageShown(state, is_submitted) == state["has_calculated"]

\* lines 167-186
EnterMain ==
    /\ pc = "gate"
    /\ MainPageShown(session_state, submitted)
    /\ Goto("solve")
    /\ UNCHANGED <<session_state, submitted, form_vars, run_vars, log, exception,
                   count_vars>>

\* lines 362-363
ShowInfo ==
    /\ pc = "gate"
    /\ ~MainPageShown(session_state, submitted)
    /\ log' = Append(log, "info")
    /\ Goto("idle")
    /\ UNCHANGED <<session_state, submitted, form_vars, run_vars, exception,
                   count_vars>>

\* line 189
Solve ==
    /\ pc = "solve"
    /\ LET out == solve_location(input_date, input_sunrise, input_sunset, utc_offset)
       IN  /\ result' = out.result
           /\ error_msg' = out.error_msg
    /\ log' = Append(log, "solve")
    /\ solves' = solves + 1
    /\ solves_in_run' = solves_in_run + 1
    /\ Goto("branch")
    /\ UNCHANGED <<session_state, submitted, form_vars, calc_start_date, days_to_calc,
                   sched_args, current_date, iter, data, queries, schedule_df,
                   extremes, exception, runs, submissions>>

\* line 191: the solve failed
\* fault: any message, the advisory too, is taken for a failure
SolveFailed_mutant(res, msg) == msg # None
SolveFailed(res, msg) == msg # None /\ res = NoLocation

\* lines 191-192
ShowError ==
    /\ pc = "branch"
    /\ SolveFailed(result, error_msg)
    /\ log' = Append(log, "error")
    /\ Goto("idle")
    /\ UNCHANGED <<session_state, submitted, form_vars, run_vars, exception,
                   count_vars>>

\* lines 193-209
ShowLocation ==
    /\ pc = "branch"
    /\ ~SolveFailed(result, error_msg)
    /\ log' = log \o <<"success", "location">>
                  \o (IF error_msg # None THEN <<"warning">> ELSE << >>)
    /\ Goto("map")
    /\ UNCHANGED <<session_state, submitted, form_vars, run_vars, exception,
                   count_vars>>

\* lines 211-214
ShowMap ==
    /\ pc = "map"
    /\ log' = Append(log, "map")
    /\ Goto("widgets")
    /\ UNCHANGED <<session_state, submitted, form_vars, run_vars, exception,
                   count_vars>>

\* lines 219-225: the widgets return the user's values (first: input_date and 60)
ForecastWidgets ==
    /\ pc = "widgets"
    /\ calc_start_date' \in {input_date, input_date + 1}
    /\ days_to_calc' \in 1..MaxDays
    /\ Goto("call")
    /\ UNCHANGED <<session_state, submitted, form_vars, result, error_msg, sched_args,
                   current_date, iter, data, queries, schedule_df, extremes, log,
                   exception, count_vars>>

\* ------------------------------------------------------------------------
\* calculate_schedule and the ephemeris engine it queries
\* ------------------------------------------------------------------------

AlwaysUpError == "AlwaysUpError"
AlwaysDownError == "AlwaysDownError"
CircumpolarErrors == {AlwaysUpError, AlwaysDownError}

\* observer.date = current_date: midnight UTC of the date, in half hours
QueryInstant(date) == date * HalfHoursPerDay

\* what observer.next_rising / observer.next_setting may answer at instant t:
\* a later instant, or a circumpolar error
Answers(t) ==
    {[raises |-> None, at |-> t + k * DelayStep] : k \in 1..MaxDelay}
    \cup {[raises |-> e, at |-> 0] : e \in CircumpolarErrors}

NotAsked == [raises |-> "NotAsked", at |-> 0]

Entry(date, next_rising, next_setting) ==
    [date |-> date, rise_utc |-> next_rising.at, set_utc |-> next_setting.at,
     day_len |-> next_setting.at - next_rising.at]

\* lines 92-107: the try block of one iteration
\* fault: a row is added as soon as the rising is known
AfterQuery_mutant(rows, date, next_rising, next_setting) ==
    IF next_rising.raises = None
    THEN Append(rows, Entry(date, next_rising, next_setting))
    ELSE rows
AfterQuery(rows, date, next_rising, next_setting) ==
    IF next_rising.raises = None /\ next_setting.raises = None
    THEN Append(rows, Entry(date, next_rising, next_setting))
    ELSE rows

FrameColumns == {"date", "rise_utc", "set_utc", "day_len"}

\* pd.DataFrame(data): a list of no dictionaries makes a frame of no columns
DataFrame(rows) ==
    IF rows = << >> THEN [columns |-> {}, rows |-> << >>]
    ELSE [columns |-> FrameColumns, rows |-> rows]

\* line 228 and lines 81-89
CallSchedule ==
    /\ pc = "call"
    /\ sched_args' = [lat |-> result[1], lon |-> result[2],
                      start_date |-> calc_start_date, days |-> days_to_calc]
    /\ current_date' = calc_start_date
    /\ iter' = 0
    /\ data' = << >>
    /\ queries' = << >>
    /\ log' = Append(log, "forecast")
    /\ Goto("loop")
    /\ UNCHANGED <<session_state, submitted, form_vars, result, error_msg,
                   calc_start_date, days_to_calc, schedule_df, extremes, exception,
                   count_vars>>

\* lines 90-109: one iteration, with the engine's answers
Iteration(next_rising, next_setting) ==
    /\ pc = "loop"
    /\ iter < sched_args.days
    /\ data' = AfterQuery(data, current_date, next_rising, next_setting)
    /\ queries' = Append(queries, [date |-> current_date,
                                   rising |-> next_rising.raises,
                                   setting |-> next_setting.raises])
    /\ current_date' = current_date + 1
    /\ iter' = iter + 1
    /\ UNCHANGED <<session_state, pc, submitted, form_vars, result, error_msg,
                   calc_start_date, days_to_calc, sched_args, schedule_df, extremes,
                   log, exception, count_vars>>

\* both queries answer (two events of one day are never the same instant)
QueryBoth ==
    \E r \in Answers(QueryInstant(current_date)) :
    \E s \in Answers(QueryInstant(current_date)) :
        /\ r.raises = None /\ s.raises = None /\ r.at # s.at
        /\ Iteration(r, s)

\* line 93 raises: line 94 is not reached
RisingRaises ==
    \E r \in Answers(QueryInstant(current_date)) :
        /\ r.raises \in CircumpolarErrors
        /\ Iteration(r, NotAsked)

\* line 93 answers and line 94 raises
SettingRaises ==
    \E r \in Answers(QueryInstant(current_date)) :
    \E s \in Answers(QueryInstant(current_date)) :
        /\ r.raises = None /\ s.raises \in CircumpolarErrors
        /\ Iteration(r, s)

\* lines 111-115
ReturnSchedule ==
    /\ pc = "loop"
    /\ iter = sched_args.days
    /\ schedule_df' = DataFrame(data)
    /\ Goto("columns")
    /\ UNCHANGED <<session_state, submitted, form_vars, result, error_msg,
                   calc_start_date, days_to_calc, sched_args, current_date, iter, data,
                   queries, extremes, log, exception, count_vars>>

\* ------------------------------------------------------------------------
\* The page script, after the forecast
\* ------------------------------------------------------------------------

\* x.time() of an instant: its time of day, in half hours
TimeOfDay(t) == t % HalfHoursPerDay

\* lines 231-244: the four local-time columns
WithLocalColumns(row, offset) ==
    [date |-> row.date, rise_utc |-> row.rise_utc, set_utc |-> row.set_utc,
     day_len |-> row.day_len,
     LocalRise |-> row.rise_utc + offset, LocalSet |-> row.set_utc + offset,
     DummyRise |-> TimeOfDay(row.rise_utc + offset),
     DummySet |-> TimeOfDay(row.set_utc + offset)]

\* line 235 on a frame without the column: KeyError ends the run
LocalColumnsKeyError ==
    /\ pc = "columns"
    /\ "rise_utc" \notin schedule_df.columns
    /\ exception' = "KeyError"
    /\ log' = Append(log, "exception")
    /\ Goto("idle")
    /\ UNCHANGED <<session_state, submitted, form_vars, run_vars, count_vars>>

\* lines 231-244
LocalColumns ==
    /\ pc = "columns"
    /\ "rise_utc" \in schedule_df.columns
    /\ schedule_df' =
         [columns |-> schedule_df.columns
                        \cup {"LocalRise", "LocalSet", "DummyRise", "DummySet"},
          rows |-> [i \in 1..Len(schedule_df.rows) |->
                      WithLocalColumns(schedule_df.rows[i], utc_offset)]]
    /\ Goto("extremes")
    /\ UNCHANGED <<session_state, submitted, form_vars, result, error_msg,
                   calc_start_date, days_to_calc, sched_args, current_date, iter, data,
                   queries, extremes, log, exception, count_vars>>

\* Series.idxmin / Series.idxmax: the label (from 0) of the first least / greatest
IdxMin(values) ==
    CHOOSE i \in 0..(Len(values) - 1) :
        /\ \A j \in 1..Len(values) : values[i + 1] <= values[j]
        /\ \A j \in 1..i : values[j] > values[i + 1]
IdxMax(values) ==
    CHOOSE i \in 0..(Len(values) - 1) :
        /\ \A j \in 1..Len(values) : values[i + 1] >= values[j]
        /\ \A j \in 1..i : values[j] < values[i + 1]

\* lines 247-253
Extremes ==
    /\ pc = "extremes"
    /\ LET rows == schedule_df.rows
           rises == [i \in 1..Len(rows) |-> TimeOfDay(rows[i].LocalRise)]
           sets == [i \in 1..Len(rows) |-> TimeOfDay(rows[i].LocalSet)]
       IN  extremes' = [earliest_rise_idx |-> IdxMin(rises),
                        latest_rise_idx |-> IdxMax(rises),
                        earliest_set_idx |-> IdxMin(sets),
                        latest_set_idx |-> IdxMax(sets)]
    /\ Goto("metrics")
    /\ UNCHANGED <<session_state, submitted, form_vars, result, error_msg,
                   calc_start_date, days_to_calc, sched_args, current_date, iter, data,
                   queries, schedule_df, log, exception, count_vars>>

\* lines 255-276: iloc of each label
KeyMetrics ==
    /\ pc = "metrics"
    /\ \A k \in DOMAIN extremes : extremes[k] + 1 \in DOMAIN schedule_df.rows
    /\ log' = Append(log, "metrics")
    /\ Goto("chart")
    /\ UNCHANGED <<session_state, submitted, form_vars, run_vars, exception,
                   count_vars>>

\* lines 278-360: the chart and the table
Present ==
    /\ pc = "chart"
    /\ log' = log \o <<"chart", "table">>
    /\ Goto("idle")
    /\ UNCHANGED <<session_state, submitted, form_vars, run_vars, exception,
                   count_vars>>

\* ------------------------------------------------------------------------
\* Specifications
\* ------------------------------------------------------------------------

Next ==
    \/ Rerun
    \/ Submit
    \/ InitSession
    \/ Form
    \/ EnterMain
    \/ ShowInfo
    \/ Solve
    \/ ShowError
    \/ ShowLocation
    \/ ShowMap
    \/ ForecastWidgets
    \/ CallSchedule
    \/ QueryBoth
    \/ RisingRaises
    \/ SettingRaises
    \/ ReturnSchedule
    \/ LocalColumnsKeyError
    \/ LocalColumns
    \/ Extremes
    \/ KeyMetrics
    \/ Present

\* one session of the page
Spec == Init /\ [][Next]_vars

\* the solver on its own: a submitted run about to execute line 189, with any of
\* the sampled inputs in the form
SolveInit ==
    /\ session_state = [k \in {"has_calculated"} |-> TRUE]
    /\ pc = "solve"
    /\ submitted = TRUE
    /\ input_date \in SolveDates
    /\ input_sunrise \in SolveTimes
    /\ input_sunset \in SolveTimes
    /\ utc_offset \in SolveOffsets
    /\ FreshRun
    /\ runs = 2 /\ submissions = 1 /\ solves = 0

SolveNext == Solve

SolveSpec == SolveInit /\ [][SolveNext]_vars

\* the widgets' ranges
TypeOK ==
    /\ DOMAIN session_state \subseteq {"has_calculated"}
    /\ submitted \in BOOLEAN
    /\ input_date \in 1..LastDate
    /\ \A t \in {input_sunrise, input_sunset} :
         t.hour \in Hours /\ t.minute \in Minutes /\ t.second \in Minutes
    /\ utc_offset \in UtcOffsets
    /\ iter \in 0..MaxDays
    /\ runs \in 0..MaxRuns

\* ------------------------------------------------------------------------
\* Properties
\* ------------------------------------------------------------------------

Solved == solves_in_run = 1
HasLocation == Len(result) = 2
InLog(e) == \E i \in DOMAIN log : log[i] = e
DayLength == Seconds(input_sunset) - Seconds(input_sunrise)
ScheduleCalled == Len(log) > 0 /\ InLog("forecast")

\* C1: solve_location returns InvalidDayLength, with no location, exactly when the
\* sunset's seconds since midnight are not after the sunrise's.
C1_InvalidDayLength ==
    Solved =>
      /\ (Seconds(input_sunset) <= Seconds(input_sunrise)) <=> (error_msg = InvalidDayLength)
      /\ (error_msg = InvalidDayLength) <=> (result = NoLocation)

C1_Witness ==
    /\ Solved
    /\ Seconds(input_sunset) = Seconds(input_sunrise)
    /\ error_msg = InvalidDayLength /\ result = NoLocation

\* C2: a location returned with no failure and no advisory has its latitude in
\* [-90, 90] and its longitude in [-180, 180].
C2_LocationInRange ==
    (Solved /\ HasLocation /\ error_msg = None) =>
      /\ result[1] >= -90 * Res /\ result[1] <= 90 * Res
      /\ result[2] >= -180 * Res /\ result[2] <= 180 * Res

\* the sunrise/sunset pairs solve_location accepts
ValidPairs ==
    {p \in SolveTimes \X SolveTimes : Seconds(p[2]) > Seconds(p[1])}

\* twice the midpoint of a pair, in seconds
TwiceNoon(sr, ss) == Seconds(sr) + Seconds(ss)

\* C3: with the date and the offset fixed, the longitude of any other valid pair
\* differs from the one returned by -0.25 degrees per minute of difference of the
\* midpoints (Res/480 units per half second).
C3_LongitudePerMinute ==
    (Solved /\ HasLocation) =>
      \A p \in ValidPairs :
        LET other == solve_location(input_date, p[1], p[2], utc_offset)
        IN  other.result[2] - result[2]
              = -(TwiceNoon(p[1], p[2]) - TwiceNoon(input_sunrise, input_sunset))
                  * (Res \div 480)

\* a solved pair, and another pair of the same midpoint and a different day length
C3_Witness ==
    /\ Solved /\ HasLocation
    /\ \E p \in ValidPairs :
         /\ TwiceNoon(p[1], p[2]) = TwiceNoon(input_sunrise, input_sunset)
         /\ Seconds(p[2]) - Seconds(p[1]) # DayLength
         /\ solve_location(input_date, p[1], p[2], utc_offset).result[2] = result[2]

\* the longitude formula of step 5, from the inputs: 4 * longitude =
\* 720 - (noon minutes - 60 * offset) - eot
LongitudeAsSpecified ==
    4 * result[2] =
        720 * Res - TwiceNoon(input_sunrise, input_sunset) * (Res \div 120)
        + utc_offset * 30 * Res - get_solar_declination_and_eot(input_date).eot * Fine

\* the sunrise equation cos(omega) = -tan(phi) tan(delta), multiplied by cos(phi),
\* at the latitude returned: its residual, in units of 1/Scale
SunriseResidual ==
    LET phi == Radians(Quot(result[1], Fine))
        tan_delta == Tan(get_solar_declination_and_eot(input_date).delta_rad)
    IN  Mul(Sin(phi), tan_delta) + Mul(Cos(phi), Cos(omega_rad(DayLength)))

\* C4: an outcome is a failure with no location, a location with the advisory or
\* a location with none.  For a positive day length the advisory is returned
\* exactly when |tan(declination)| < 0.001 (of the sampled dates: day 81 of the
\* year); then the latitude is 0 and the longitude is the formula's; otherwise
\* there is no advisory, the longitude is the formula's and the latitude is the
\* angle in (-90, 90) that solves the sunrise equation.
C4_OutcomeShapes ==
    Solved =>
      LET tan_delta == Tan(get_solar_declination_and_eot(input_date).delta_rad)
          near == Abs(tan_delta) < TanDeltaThreshold
      IN  /\ \/ error_msg = InvalidDayLength /\ result = NoLocation
             \/ error_msg = NearEquinoxLowConfidence /\ HasLocation
             \/ error_msg = None /\ HasLocation
          /\ DayLength > 0 =>
               /\ HasLocation
               /\ (error_msg = NearEquinoxLowConfidence) <=> near
               /\ near <=> (tm_yday(input_date) = DayOfYearZero)
               /\ LongitudeAsSpecified
               /\ near => result[1] = 0
               /\ ~near =>
                    /\ error_msg = None
                    /\ Abs(result[1]) < 90 * Res
                    /\ Abs(SunriseResidual) <= 10

\* both paths are taken: a latitude from the formula, away from the equator
C4_Witness ==
    /\ Solved /\ HasLocation /\ error_msg = None
    /\ tm_yday(input_date) = 82
    /\ Abs(result[1]) > 80 * Res

\* C6: day 81, sunrise 06:30:00, sunset 18:30:00, offset +8: the day length is
\* 43200 s, local solar noon is minute 750, and the outcome is the advisory with
\* latitude 0 and a longitude within 6 degrees of 120.
C6_EquinoxExample ==
    (/\ Solved
     /\ tm_yday(input_date) = 81
     /\ input_sunrise = ClockTime(6, 30, 0) /\ input_sunset = ClockTime(18, 30, 0)
     /\ utc_offset = 16) =>
      /\ DayLength = 43200
      /\ local_solar_noon_min(Seconds(input_sunrise), DayLength) = 750 * Res
      /\ error_msg = NearEquinoxLowConfidence
      /\ HasLocation
      /\ result[1] = 0
      /\ Abs(result[2] - 120 * Res) <= 6 * Res

C6_Witness ==
    /\ Solved
    /\ tm_yday(input_date) = 81
    /\ input_sunrise = ClockTime(6, 30, 0) /\ input_sunset = ClockTime(18, 30, 0)
    /\ utc_offset = 16
    /\ error_msg = NearEquinoxLowConfidence
    /\ result[1] = 0

BothAnswered(q) == q.rising = None /\ q.setting = None

C7_CircumpolarNotEscalated ==
    (/\ ScheduleCalled
     /\ Len(queries) = sched_args.days
     /\ \A i \in DOMAIN queries : ~BothAnswered(queries[i])) =>
      /\ data = << >>
      /\ exception = None

\* C8: the schedule is computed only after solve_location returned a location,
\* and for that location; the presentation follows the forecast; after
\* InvalidDayLength the error is shown and neither the map nor the forecast is
\* reached; after the advisory the warning is shown and the forecast is reached.
C8_SolveThenForecast ==
    /\ ScheduleCalled =>
         /\ HasLocation
         /\ sched_args.lat = result[1] /\ sched_args.lon = result[2]
    /\ \A i \in DOMAIN log :
         /\ log[i] \in {"error", "location", "map", "forecast"} =>
              \E j \in 1..(i - 1) : log[j] = "solve"
         /\ log[i] \in {"metrics", "chart", "table"} =>
              \E j \in 1..(i - 1) : log[j] = "forecast"
    /\ error_msg = InvalidDayLength =>
         /\ ~InLog("map") /\ ~InLog("forecast") /\ sched_args = NoArgs
         /\ pc = "idle" => InLog("error")
    /\ (error_msg = NearEquinoxLowConfidence /\ pc = "idle") =>
         InLog("warning") /\ InLog("map") /\ InLog("forecast")

C8_Witness ==
    /\ pc = "idle"
    /\ error_msg = NearEquinoxLowConfidence
    /\ InLog("warning") /\ InLog("forecast")

HasCalculated ==
    "has_calculated" \in DOMAIN session_state /\ session_state["has_calculated"]

\* has_calculated is false until a submission and true from the first submitted
\* run's form on; nothing is solved or forecast before the first submission
SubmissionGate ==
    /\ HasCalculated => submissions > 0
    /\ (submissions > 0 /\ pc \notin {"init_session", "form"}) => HasCalculated
    /\ solves > 0 => submissions > 0
    /\ ScheduleCalled => submissions > 0

\* C9 as stated: SubmissionGate, and one solve per submission: a run that no
\* submission caused solves nothing.
C9_OneSolvePerSubmission ==
    /\ SubmissionGate
    /\ ~submitted => solves_in_run = 0
    /\ pc = "idle" => solves = submissions

\* C9 as amended: SubmissionGate, and every run from the first submission on,
\* caused by a submission or not, solves exactly once; the runs before solve
\* nothing.
C9_OneSolvePerRun ==
    /\ SubmissionGate
    /\ solves_in_run <= 1
    /\ (pc = "idle" /\ runs > 0) =>
         solves_in_run = (IF submissions > 0 THEN 1 ELSE 0)
    /\ submitted /\ pc \notin {"init_session", "form", "gate", "solve"} => Solved

\* a run that no submission caused has solved
C9_Witness ==
    /\ pc = "idle" /\ runs > 0
    /\ ~submitted
    /\ submissions > 0
    /\ Solved

\* C10: every entry's sunrise is before its sunset: its day length is positive.
C10_RiseBeforeSet ==
    \A i \in DOMAIN data :
        data[i].rise_utc < data[i].set_utc /\ data[i].day_len > 0
====
